---- MODULE Spec2Model ----
(***************************************************************************)
(* A model of discoverx.dx.DX (src/discoverx/dx.py): construction with a   *)
(* validated classification threshold, scan() with its table loop          *)
(* (_execute_scan) and its summary (_display_scan_summary), and msql().    *)
(*                                                                         *)
(* The execution engine (spark.sql), the query compiler (SqlBuilder) and   *)
(* the catalog (DataModel.get_table_list) are collaborators: the engine's  *)
(* answer per table is the environment variable data, whether compiling or *)
(* running a table's query raises is the environment variable mode, and    *)
(* the table list is an input of scan().                                   *)
(*                                                                         *)
(* Frequencies and thresholds are fractions with denominator FreqDen: the  *)
(* integer k stands for k / FreqDen, so 0 is 0.0 and FreqDen is 1.0.       *)
(***************************************************************************)
EXTENDS Integers, Sequences, FiniteSets

\* ------------------------------------------------------------------ bounds

\* frequencies and thresholds are multiples of 1 / FreqDen
FreqDen == 2

\* longest table list get_table_list returns
MaxTables == 3

\* ----------------------------------------------------------- the lakehouse

TableA == [catalog |-> "c1", database |-> "d1", table |-> "t1"]
TableB == [catalog |-> "c1", database |-> "d1", table |-> "t2"]
TableC == [catalog |-> "c2", database |-> "d1", table |-> "t1"]

Tables == {TableA, TableB, TableC}

NoTable == [catalog |-> "", database |-> "", table |-> ""]

\* the (column, rule) pairs a table's query evaluates, in output order
Schema(t) ==
    IF t = TableA THEN << <<"x", "r1">>, <<"x", "r2">> >>
    ELSE IF t = TableB THEN << <<"x", "r1">> >>
    ELSE << <<"y", "r2">> >>

\* the rule names, in the sorted order groupby lists them
RuleOrder == <<"r1", "r2">>

Frequencies == 0..FreqDen

\* one row of a per-table result frame
ScanRow(t, column, rule_name, frequency) ==
    [catalog |-> t.catalog, database |-> t.database, table |-> t.table,
     column |-> column, rule_name |-> rule_name, frequency |-> frequency]

\* the rows whose frequency varies from one lakehouse to the next: those of
\* TableA and TableB; TableC's row always has frequency 1.0
PairIds == UNION {{<<t, i>> : i \in 1..Len(Schema(t))} : t \in {TableA, TableB}}

\* the frame the engine answers with: one row per (column, rule) pair
Frame(t, f) ==
    [i \in 1..Len(Schema(t)) |->
        ScanRow(t, Schema(t)[i][1], Schema(t)[i][2],
                IF <<t, i>> \in PairIds THEN f[<<t, i>>] ELSE FreqDen)]

DataChoices == {[t \in Tables |-> Frame(t, f)] : f \in [PairIds -> Frequencies]}

\* what happens to a table's query: it runs, rule_matching_sql raises, or
\* spark.sql(...).toPandas() raises
Modes == {"ok", "compile_raises", "execute_raises"}

\* the lakehouses a run is checked in: every data set with every table
\* answering, and every combination of failing tables over the data set whose
\* rows all have frequency 1.0
Environments ==
    {<<d, [t \in Tables |-> "ok"]>> : d \in DataChoices} \cup
    {<<[t \in Tables |-> Frame(t, [p \in PairIds |-> FreqDen])], m>> :
        m \in [Tables -> Modes]}

\* the table lists get_table_list can return: distinct tables, any order
RECURSIVE SeqsUpTo(_)
SeqsUpTo(n) ==
    IF n = 0 THEN {<<>>}
    ELSE LET shorter == SeqsUpTo(n - 1)
         IN  shorter \cup
             {Append(s, t) : s \in {q \in shorter : Len(q) = n - 1}, t \in Tables}

IsInjective(s) == \A i, j \in 1..Len(s) : s[i] = s[j] => i = j

TableLists == {s \in SeqsUpTo(MaxTables) : IsInjective(s)}

\* the thresholds a caller may pass to DX(...), in and out of [0,1]
ThresholdArgs == (0 - 1)..(FreqDen + 1)

\* ------------------------------------------------------------------- state

VARIABLES
    dx,             \* "absent" or "ready": whether a DX object exists
    threshold,      \* self.column_type_classification_threshold
    scan_result,    \* self.scan_result: Unset, or a data frame
    events,         \* what the last call logged and submitted, in order
    summary,        \* what _display_scan_summary last showed, or NoSummary
    raised,         \* the exception that escaped the last call, or "none"
    call,           \* the last call and its arguments
    data,           \* environment: the engine's answer per table
    mode            \* environment: which tables' queries raise, and where

vars == <<dx, threshold, scan_result, events, summary, raised, call, data, mode>>

\* the attribute self.scan_result does not exist
Unset == [set |-> FALSE, has_columns |-> FALSE, rows |-> <<>>]

\* a pandas DataFrame: pd.DataFrame() has no columns and no rows
DataFrame(has_columns, rows) == [set |-> TRUE, has_columns |-> has_columns, rows |-> rows]

NoThreshold == 0 - 1

NoSummary == [shown |-> FALSE, n_scanned |-> 0, n_classified |-> 0,
              rule_match_counts |-> <<>>, classified_cols |-> <<>>]

\* a call: the method, its arguments, and whether self.scan_result was
\* already assigned when the call began
Call(op, table_list, what_if, arg, replaces) ==
    [op |-> op, table_list |-> table_list, what_if |-> what_if, arg |-> arg,
     replaces |-> replaces]

NoCall == Call("none", <<>>, FALSE, 0, FALSE)

Ev(kind, t, index, total) == [kind |-> kind, table |-> t, index |-> index, total |-> total]

\* ------------------------------------------------ DX.__init__ and validation

\* the mutant of _validate_classification_threshold: only the upper end is checked
ValidateUpperEndOnly(t) ==
    IF t > FreqDen
    THEN [raised |-> "ValueError", value |-> NoThreshold,
          logged |-> <<Ev("error_threshold", NoTable, 0, 0)>>]
    ELSE [raised |-> "none", value |-> t, logged |-> <<>>]

\* _validate_classification_threshold: (threshold < 0) or (threshold > 1) raises
ValidateClassificationThreshold(t) ==
    IF (t < 0) \/ (t > FreqDen)
    THEN [raised |-> "ValueError", value |-> NoThreshold,
          logged |-> <<Ev("error_threshold", NoTable, 0, 0)>>]
    ELSE [raised |-> "none", value |-> t, logged |-> <<>>]

\* intro(): one of two texts, by spark.conf's unityCatalog.enabled
Intro(uc_enabled) ==
    <<Ev(IF uc_enabled THEN "intro" ELSE "missing_uc", NoTable, 0, 0)>>

\* DX(column_type_classification_threshold = t): the threshold is validated
\* and stored, then the introduction is shown; scan_result is not assigned
Construct ==
    /\ dx = "absent"
    /\ \E t \in ThresholdArgs, uc_enabled \in BOOLEAN :
         LET v == ValidateClassificationThreshold(t)
         IN  /\ call' = Call("init", <<>>, FALSE, t, FALSE)
             /\ IF v.raised # "none"
                THEN /\ dx' = "absent"
                     /\ threshold' = NoThreshold
                     /\ events' = v.logged
                     /\ raised' = v.raised
                ELSE /\ dx' = "ready"
                     /\ threshold' = v.value
                     /\ events' = v.logged \o Intro(uc_enabled)
                     /\ raised' = "none"
    /\ scan_result' = Unset
    /\ summary' = NoSummary
    /\ UNCHANGED <<data, mode>>

\* ------------------------------------------------------------ _execute_scan

\* the loop's accumulator: the frames collected, the log, an escaping exception
NoDfs == [dfs |-> <<>>, events |-> <<>>, exc |-> "none"]

Progress(table_list, i, what_if) ==
    Ev(IF what_if THEN "would_execute" ELSE "scanning", table_list[i], i, Len(table_list))

\* the mutant of ScanTable: no try/except around the table's query
ScanTableNoCatch(acc, table_list, i, what_if) ==
    LET t == table_list[i]
        progress == Progress(table_list, i, what_if)
        compile == Ev("rule_matching_sql", t, 0, 0)
        submit == Ev("spark_sql", t, 0, 0)
    IN  IF mode[t] = "compile_raises"
        THEN [acc EXCEPT !.events = @ \o <<progress, compile>>, !.exc = "Exception"]
        ELSE IF what_if
        THEN [acc EXCEPT !.events = @ \o <<progress, compile, Ev("sql_text", t, 0, 0)>>]
        ELSE IF mode[t] = "execute_raises"
        THEN [acc EXCEPT !.events = @ \o <<progress, compile, submit>>, !.exc = "Exception"]
        ELSE [acc EXCEPT !.events = @ \o <<progress, compile, submit>>,
                         !.dfs = Append(@, data[t])]

\* the mutant of ScanTable: the progress message is logged after the query
ScanTableLateProgress(acc, table_list, i, what_if) ==
    LET t == table_list[i]
        progress == Progress(table_list, i, what_if)
        compile == Ev("rule_matching_sql", t, 0, 0)
        submit == Ev("spark_sql", t, 0, 0)
        error == Ev("error", t, 0, 0)
    IN  IF mode[t] = "compile_raises"
        THEN [acc EXCEPT !.events = @ \o <<compile, error>>]
        ELSE IF what_if
        THEN [acc EXCEPT !.events = @ \o <<compile, Ev("sql_text", t, 0, 0), progress>>]
        ELSE IF mode[t] = "execute_raises"
        THEN [acc EXCEPT !.events = @ \o <<compile, submit, error>>]
        ELSE [acc EXCEPT !.events = @ \o <<compile, submit, progress>>,
                         !.dfs = Append(@, data[t])]

\* one iteration of the table loop: the progress message, then inside the try
\* the query is compiled and either logged (what_if) or run and its frame
\* appended; an exception is logged and the loop continues
ScanTable(acc, table_list, i, what_if) ==
    LET t == table_list[i]
        progress == Progress(table_list, i, what_if)
        compile == Ev("rule_matching_sql", t, 0, 0)
        submit == Ev("spark_sql", t, 0, 0)
        error == Ev("error", t, 0, 0)
    IN  IF mode[t] = "compile_raises"
        THEN [acc EXCEPT !.events = @ \o <<progress, compile, error>>]
        ELSE IF what_if
        THEN [acc EXCEPT !.events = @ \o <<progress, compile, Ev("sql_text", t, 0, 0)>>]
        ELSE IF mode[t] = "execute_raises"
        THEN [acc EXCEPT !.events = @ \o <<progress, compile, submit, error>>]
        ELSE [acc EXCEPT !.events = @ \o <<progress, compile, submit>>,
                         !.dfs = Append(@, data[t])]

\* for i, table in enumerate(table_list): an escaping exception ends the loop
RECURSIVE TableLoop(_, _, _, _)
TableLoop(acc, table_list, i, what_if) ==
    IF i > Len(table_list) \/ acc.exc # "none"
    THEN acc
    ELSE TableLoop(ScanTable(acc, table_list, i, what_if), table_list, i + 1, what_if)

\* the mutant of PdConcat: the frames are joined last to first
RECURSIVE PdConcatReversed(_)
PdConcatReversed(dfs) ==
    IF dfs = <<>> THEN <<>> ELSE PdConcatReversed(Tail(dfs)) \o Head(dfs)

\* pd.concat(dfs): the rows of the frames, frame after frame
RECURSIVE PdConcat(_)
PdConcat(dfs) ==
    IF dfs = <<>> THEN <<>> ELSE Head(dfs) \o PdConcat(Tail(dfs))

\* _execute_scan: the loop between its two debug messages, then
\* pd.concat(dfs) if dfs else pd.DataFrame()
ExecuteScan(table_list, what_if) ==
    LET start == [NoDfs EXCEPT !.events = <<Ev("launching", NoTable, 0, 0)>>]
        acc == TableLoop(start, table_list, 1, what_if)
    IN  IF acc.exc # "none"
        THEN [exc |-> acc.exc, events |-> acc.events, result |-> Unset]
        ELSE [exc |-> "none",
              events |-> Append(acc.events, Ev("finished", NoTable, 0, 0)),
              result |-> IF acc.dfs # <<>>
                         THEN DataFrame(TRUE, PdConcat(acc.dfs))
                         ELSE DataFrame(FALSE, <<>>)]

\* ---------------------------------------------------- _display_scan_summary

\* the identity of a column: df[['catalog', 'database', 'table', 'column']]
ColumnKey(row) == <<row.catalog, row.database, row.table, row.column>>

ColumnKeys(rows) == [i \in 1..Len(rows) |-> ColumnKey(rows[i])]

\* drop_duplicates(): the first occurrence of every value, in order
RECURSIVE DropDuplicates(_)
DropDuplicates(s) ==
    IF s = <<>> THEN <<>>
    ELSE LET front == SubSeq(s, 1, Len(s) - 1)
             last == s[Len(s)]
         IN  IF \E i \in 1..Len(front) : front[i] = last
             THEN DropDuplicates(front)
             ELSE Append(DropDuplicates(front), last)

\* the mutant of ClassifiedCols: >= in the place of >
ClassifiedColsAtLeast(rows, t) ==
    SelectSeq(rows, LAMBDA row : row.frequency >= t)

\* df[df['frequency'] > self.column_type_classification_threshold]
ClassifiedCols(rows, t) ==
    SelectSeq(rows, LAMBDA row : row.frequency > t)

\* the mutant of RuleMatchCounts: every rule's count is the number of classified rows
RuleMatchCountsUngrouped(classified_cols) ==
    LET present == SelectSeq(RuleOrder, LAMBDA rule :
                       \E i \in 1..Len(classified_cols) : classified_cols[i].rule_name = rule)
    IN  [i \in 1..Len(present) |->
            [rule_name |-> present[i], frequency |-> Len(classified_cols)]]

\* classified_cols.groupby(['rule_name']).agg({'frequency': 'count'}): one entry
\* per rule name that occurs, in sorted order, with the number of its rows
RuleMatchCounts(classified_cols) ==
    LET present == SelectSeq(RuleOrder, LAMBDA rule :
                       \E i \in 1..Len(classified_cols) : classified_cols[i].rule_name = rule)
    IN  [i \in 1..Len(present) |->
            [rule_name |-> present[i],
             frequency |-> Len(SelectSeq(classified_cols,
                                         LAMBDA row : row.rule_name = present[i]))]]

\* _display_scan_summary: df['frequency'] raises KeyError on a frame without
\* columns; otherwise the counts and the classified rows are shown
DisplayScanSummary(df, t) ==
    IF ~df.has_columns
    THEN [raised |-> "KeyError", summary |-> NoSummary, events |-> <<>>]
    ELSE LET classified_cols == ClassifiedCols(df.rows, t)
         IN  [raised |-> "none",
              summary |-> [shown |-> TRUE,
                           n_scanned |-> Len(DropDuplicates(ColumnKeys(df.rows))),
                           n_classified |-> Len(DropDuplicates(ColumnKeys(classified_cols))),
                           rule_match_counts |-> RuleMatchCounts(classified_cols),
                           classified_cols |-> classified_cols],
              events |-> <<Ev("summary", NoTable, 0, 0)>>]

\* --------------------------------------------------------------------- scan

\* the mutant of ScanCall: the new rows are added to the rows already held
ScanCallAccumulating(self, table_list, what_if) ==
    LET r == ExecuteScan(table_list, what_if)
        joined == DataFrame(r.result.has_columns \/ self.scan_result.has_columns,
                            self.scan_result.rows \o r.result.rows)
        s == DisplayScanSummary(joined, self.threshold)
    IN  [scan_result |-> joined,
         events |-> <<Ev("scan_start", NoTable, 0, 0),
                      Ev("asked", NoTable, 0, Len(table_list))>>
                    \o r.events \o <<Ev("done", NoTable, 0, 0)>> \o s.events,
         summary |-> s.summary,
         raised |-> s.raised]

\* scan(): two messages, self.scan_result = self._execute_scan(...), "Done.",
\* then the summary; self is the object's fields before the call
ScanCall(self, table_list, what_if) ==
    LET head == <<Ev("scan_start", NoTable, 0, 0),
                  Ev("asked", NoTable, 0, Len(table_list))>>
        r == ExecuteScan(table_list, what_if)
        s == DisplayScanSummary(r.result, self.threshold)
    IN  IF r.exc # "none"
        THEN [scan_result |-> self.scan_result,
              events |-> head \o r.events,
              summary |-> NoSummary,
              raised |-> r.exc]
        ELSE [scan_result |-> r.result,
              events |-> head \o r.events \o <<Ev("done", NoTable, 0, 0)>> \o s.events,
              summary |-> s.summary,
              raised |-> s.raised]

Self == [threshold |-> threshold, scan_result |-> scan_result]

\* dx.scan(..., what_if): table_list is what get_table_list returned
Scan ==
    /\ dx = "ready"
    /\ \E table_list \in TableLists, what_if \in BOOLEAN :
         \E out \in {ScanCall(Self, table_list, what_if)} :
             /\ call' = Call("scan", table_list, what_if, 0, scan_result.set)
             /\ scan_result' = out.scan_result
             /\ events' = out.events
             /\ summary' = out.summary
             /\ raised' = out.raised
    /\ UNCHANGED <<dx, threshold, data, mode>>

\* --------------------------------------------------------------------- msql

\* msql(): "if (not self.scan_result)" reads an attribute __init__ never
\* assigns (AttributeError) or takes the truth value of a DataFrame
\* (ValueError); neither way is a line after it reached
MsqlCall(self, what_if) ==
    IF ~self.scan_result.set
    THEN [events |-> <<>>, raised |-> "AttributeError"]
    ELSE [events |-> <<>>, raised |-> "ValueError"]

\* dx.msql(msql, what_if)
Msql ==
    /\ dx = "ready"
    /\ \E what_if \in BOOLEAN :
         LET out == MsqlCall(Self, what_if)
         IN  /\ call' = Call("msql", <<>>, what_if, 0, scan_result.set)
             /\ events' = out.events
             /\ raised' = out.raised
    /\ summary' = NoSummary
    /\ UNCHANGED <<dx, threshold, scan_result, data, mode>>

\* ------------------------------------------------------------ specification

Init ==
    /\ dx = "absent"
    /\ threshold = NoThreshold
    /\ scan_result = Unset
    /\ events = <<>>
    /\ summary = NoSummary
    /\ raised = "none"
    /\ call = NoCall
    /\ \E env \in Environments : data = env[1] /\ mode = env[2]

Next == Construct \/ Scan \/ Msql

Spec == Init /\ [][Next]_vars

\* ------------------------------------------------------------------- claims

Kinds(ks) == SelectSeq(events, LAMBDA e : e.kind \in ks)

OfTable(rows, t) ==
    SelectSeq(rows, LAMBDA row :
        row.catalog = t.catalog /\ row.database = t.database /\ row.table = t.table)

InList(t, table_list) == \E i \in 1..Len(table_list) : table_list[i] = t

Scanned == call.op = "scan" /\ ~call.what_if

\* C1: after _execute_scan with what_if = False, every table of the list was
\* attempted, the function ran to its end, and the result holds all rows of
\* every table whose query ran and no row of a table whose query raised
C1_FailingTablesAreSkipped ==
    Scanned =>
        /\ \A i \in 1..Len(call.table_list) :
              \E k \in 1..Len(events) :
                  events[k].kind = "rule_matching_sql" /\ events[k].table = call.table_list[i]
        /\ \E k \in 1..Len(events) : events[k].kind = "finished"
        /\ scan_result.set
        /\ \A t \in Tables :
              OfTable(scan_result.rows, t) =
                  IF InList(t, call.table_list) /\ mode[t] = "ok" THEN data[t] ELSE <<>>

C1_Witness ==
    /\ Scanned
    /\ call.table_list = <<TableA, TableB, TableC>>
    /\ mode[TableA] = "ok" /\ mode[TableB] = "execute_raises" /\ mode[TableC] = "ok"
    /\ scan_result.rows = data[TableA] \o data[TableC]
    /\ \E k \in 1..Len(events) : events[k].kind = "error" /\ events[k].table = TableB

C4_DryRunCompletes ==
    (call.op = "scan" /\ call.what_if) =>
        /\ Kinds({"spark_sql"}) = <<>>
        /\ \A i \in 1..Len(call.table_list) :
              mode[call.table_list[i]] # "compile_raises" =>
                  \E k \in 1..Len(events) :
                      events[k].kind = "sql_text" /\ events[k].table = call.table_list[i]
        /\ scan_result.set /\ scan_result.rows = <<>>
        /\ raised = "none"

\* C5: a scan of no table, or one in which every table's query fails, leaves
\* an empty result, shows the summary, and scan() returns without raising
C5_EmptyScanIsNoFailure ==
    (Scanned /\ \A i \in 1..Len(call.table_list) : mode[call.table_list[i]] # "ok") =>
        /\ scan_result.set /\ scan_result.rows = <<>>
        /\ summary.shown
        /\ raised = "none"

\* the frames of the tables whose query runs, joined in the order of the list
RECURSIVE ExpectedRows(_)
ExpectedRows(table_list) ==
    IF table_list = <<>> THEN <<>>
    ELSE (IF mode[Head(table_list)] = "ok" THEN data[Head(table_list)] ELSE <<>>)
         \o ExpectedRows(Tail(table_list))

\* C6: _execute_scan compiles the tables' queries in the order of the list,
\* submits at most one query per table, and returns the engine's frames of
\* the successful tables joined in table order, row for row
C6_RowsConcatenatedInTableOrder ==
    Scanned =>
        /\ LET compiled == Kinds({"rule_matching_sql"})
           IN  /\ Len(compiled) = Len(call.table_list)
               /\ \A i \in 1..Len(compiled) : compiled[i].table = call.table_list[i]
        /\ \A t \in Tables :
              Len(SelectSeq(events, LAMBDA e : e.kind = "spark_sql" /\ e.table = t)) <= 1
        /\ scan_result.rows = ExpectedRows(call.table_list)

C6_Witness ==
    /\ Scanned
    /\ call.table_list = <<TableC, TableA>>
    /\ mode[TableA] = "ok" /\ mode[TableC] = "ok"
    /\ scan_result.rows = data[TableC] \o data[TableA]

Above(rows, t) == {i \in 1..Len(rows) : rows[i].frequency > t}

CountOf(rule) ==
    LET listed == SelectSeq(summary.rule_match_counts, LAMBDA c : c.rule_name = rule)
    IN  IF listed = <<>> THEN 0 ELSE listed[1].frequency

\* C7: the summary's counts are the number of distinct column identities in
\* the result, the number of distinct column identities with a row above the
\* threshold, and per rule the number of rows above the threshold; a column
\* above the threshold under two rules keeps both rows and counts once
C7_SummaryCounts ==
    summary.shown =>
        LET rows == scan_result.rows
            above == Above(rows, threshold)
        IN  /\ summary.n_scanned = Cardinality({ColumnKey(rows[i]) : i \in 1..Len(rows)})
            /\ summary.n_classified = Cardinality({ColumnKey(rows[i]) : i \in above})
            /\ \A k \in 1..Len(RuleOrder) :
                  CountOf(RuleOrder[k]) =
                      Cardinality({i \in above : rows[i].rule_name = RuleOrder[k]})
            /\ \A k \in 1..Len(summary.rule_match_counts) :
                  summary.rule_match_counts[k].frequency > 0
            /\ Len(summary.classified_cols) = Cardinality(above)
            /\ summary.n_classified <= summary.n_scanned

C7_Witness ==
    /\ summary.shown
    /\ Len(scan_result.rows) = 4
    /\ Len(summary.classified_cols) = 3
    /\ summary.n_scanned = 3
    /\ summary.n_classified = 2
    /\ CountOf("r1") = 1 /\ CountOf("r2") = 2

\* C8: a scan() leaves the result that the same scan leaves on an object that
\* holds no result, and a scan() repeated with the same arguments leaves the
\* result unchanged
C8_ScanResultReplaced ==
    [][call'.op = "scan" =>
          /\ scan_result' =
                ScanCall([threshold |-> threshold, scan_result |-> Unset],
                         call'.table_list, call'.what_if).scan_result
          /\ (call.op = "scan" /\ call.table_list = call'.table_list
                /\ call.what_if = call'.what_if) => scan_result' = scan_result]_vars

C8_Witness ==
    /\ Scanned
    /\ call.replaces
    /\ call.table_list = <<TableB>>
    /\ scan_result.rows = data[TableB]
    /\ Len(scan_result.rows) = 1

IsProgress(e) == e.kind \in {"scanning", "would_execute"}

\* C9: _execute_scan logs one progress message per table, in the order of the
\* list, with the table and (index/n) for index 1..n, before anything else is
\* logged or called for that table, whether or not the table's scan fails
C9_ProgressPerTable ==
    call.op = "scan" =>
        LET progress == SelectSeq(events, IsProgress)
            n == Len(call.table_list)
        IN  /\ Len(progress) = n
            /\ \A i \in 1..n :
                  /\ progress[i].table = call.table_list[i]
                  /\ progress[i].index = i
                  /\ progress[i].total = n
                  /\ progress[i].kind = IF call.what_if THEN "would_execute" ELSE "scanning"
            /\ \A k \in 1..Len(events) :
                  events[k].kind \in {"rule_matching_sql", "spark_sql", "sql_text", "error"} =>
                      \E j \in 1..(k - 1) :
                          IsProgress(events[j]) /\ events[j].table = events[k].table

C9_Witness ==
    /\ Scanned
    /\ call.table_list = <<TableB, TableC, TableA>>
    /\ mode[TableC] = "compile_raises"
    /\ mode[TableA] = "execute_raises"
    /\ Len(SelectSeq(events, IsProgress)) = 3
    /\ Len(Kinds({"error"})) = 2

\* C10: msql() on an object that was never scanned submits no query, tells
\* the user to run 'dx.scan()' first, and returns without raising
C10_MsqlBeforeScanReturns ==
    (call.op = "msql" /\ ~scan_result.set) =>
        /\ raised = "none"
        /\ Len(Kinds({"need_scan"})) = 1
        /\ Kinds({"spark_sql"}) = <<>>

\* C11: msql() after a scan that left rows compiles the template once per
\* table, joins the queries with UNION ALL, and returns without raising: a
\* dry run only reports the SQL, otherwise exactly one query is submitted
C11_MsqlAfterScanRuns ==
    (call.op = "msql" /\ scan_result.set /\ scan_result.rows # <<>>) =>
        /\ raised = "none"
        /\ Kinds({"compile_msql"}) # <<>>
        /\ call.what_if =>
              /\ Kinds({"spark_sql"}) = <<>>
              /\ Len(Kinds({"sql_text"})) = 1
        /\ ~call.what_if => Len(Kinds({"spark_sql"})) = 1

====
